---- MODULE Spec2Model ----
(***************************************************************************)
(* State-machine model of the Sindh High Court case scraper                *)
(* (src/G3/code.py): main, scrape_major_court and                          *)
(* handle_pagination_and_scrape driving one browser session, with the      *)
(* portal and the browser as a nondeterministic environment.               *)
(*                                                                         *)
(* Text values (court names, option labels, file names) are sequences of   *)
(* characters, so that lower(), substring tests and sanitize_filename are  *)
(* computed and not assumed.                                               *)
(***************************************************************************)
EXTENDS Integers, Sequences, FiniteSets, TLC

\* ------------------------------------------------------------------ bounds
\* Rows the portal puts on one listing page.
MaxRows == 2
\* Records one jurisdiction yields under the free portal (caps the run).
MaxCases == 2
\* Labels of a listing table's header row.
MaxHeader == 3
\* Cells of one body row of a listing table.
MaxCells == 4
\* Body rows of a listing table given to extract_cases_from_html.
MaxTableRows == 2
\* Cards on the landing page given to find_major_courts_selenium.
MaxCards == 3
\* Anchors with an href on a detail page.
MaxAnchors == 3
\* ------------------------------------------------------- program constants
MAX_PAGES == 20

\* -------------------------------------------------------------- text model
LowerChar(ch) ==
    CASE ch = "H" -> "h"
      [] ch = "K" -> "k"
      [] ch = "S" -> "s"
      [] ch = "Y" -> "y"
      [] ch = "B" -> "b"
      [] ch = "C" -> "c"
      [] ch = "D" -> "d"
      [] ch = "I" -> "i"
      [] ch = "N" -> "n"
      [] ch = "O" -> "o"
      [] ch = "Memo" -> "memo"
      [] ch = "Order" -> "order"
      [] ch = ".PDF" -> ".pdf"
      [] OTHER -> ch

\* str.lower()
Lower(s) == [k \in 1..Len(s) |-> LowerChar(s[k])]

\* Python's `a in b` on strings
IsSubstr(a, b) ==
    \E k \in 0..(Len(b) - Len(a)) : SubSeq(b, k + 1, k + Len(a)) = a

AlnumChars == {"H", "K", "S", "h", "k", "s", "y", "1", "2"}

should_scrape_court(court_name, selected_courts) ==
    IF ~selected_courts.present
    THEN TRUE
    ELSE \E k \in 1..Len(selected_courts.list) :
            \/ IsSubstr(Lower(selected_courts.list[k]), Lower(court_name))
            \/ IsSubstr(Lower(court_name), Lower(selected_courts.list[k]))

sanitize_filename(s) ==
    LET safe == [k \in 1..Len(s) |->
                    IF s[k] \in AlnumChars \/ s[k] \in {" ", "_", "-"}
                    THEN s[k] ELSE "_"]
    IN  [k \in 1..Len(safe) |-> IF safe[k] = " " THEN "_" ELSE safe[k]]

FileName(major_name) ==
    <<"SindhCourt_">> \o sanitize_filename(major_name) \o <<".json">>

\* Mutant: cards are told apart by their link alone.
DedupeKeyHrefOnly(e) == <<e.href>>

\* key = (e["href"], e["name"])
DedupeKey(e) == <<e.href, e.name>>

\* The dedupe loop of find_major_courts_selenium over elements[1..n].
RECURSIVE UniquesUpTo(_, _)
UniquesUpTo(elements, n) ==
    IF n = 0 THEN <<>>
    ELSE LET prev == UniquesUpTo(elements, n - 1)
             e == elements[n]
         IN  IF /\ \A k \in 1..Len(prev) : DedupeKey(prev[k]) # DedupeKey(e)
                /\ e.href # ""
             THEN Append(prev, e) ELSE prev

find_major_courts_selenium(elements) == UniquesUpTo(elements, Len(elements))

\* [m for m in majors if should_scrape_court(m['name'], SELECTED_COURTS)]
RECURSIVE FilterMajors(_, _)
FilterMajors(ms, selected_courts) ==
    IF ms = <<>> THEN <<>>
    ELSE LET rest == FilterMajors(Tail(ms), selected_courts)
         IN  IF should_scrape_court(Head(ms).name, selected_courts)
             THEN <<Head(ms)>> \o rest ELSE rest

\* `if SELECTED_COURTS:` -- None and the empty list are both falsy.
Truthy(selected_courts) ==
    selected_courts.present /\ Len(selected_courts.list) > 0

\* f"page={n}" in current_url, the URL given by the value u of its page
\* parameter (0: no page parameter): a substring test, so "page=2" is found
\* in "page=20".
RECURSIVE DecPrefix(_, _)
DecPrefix(n, u) ==
    \/ u = n
    \/ u >= 10 /\ DecPrefix(n, u \div 10)

UrlHasPage(n, u) == u # 0 /\ DecPrefix(n, u)

\* ------------------------------------------------------------- input sets
Name1 == <<"H", "y">>
Name2 == <<"K", "/">>
Name3 == <<"K", "_">>

Card1 == [name |-> Name1, href |-> "u1"]
Card2 == [name |-> Name2, href |-> "u2"]
Card3 == [name |-> Name3, href |-> "u3"]
CardNoHref == [name |-> Name1, href |-> ""]
CardSameLink == [name |-> Name2, href |-> "u1"]

RECURSIVE SeqsUpTo(_, _)
SeqsUpTo(S, n) ==
    IF n = 0 THEN {<<>>}
    ELSE LET shorter == SeqsUpTo(S, n - 1)
         IN  shorter \cup {Append(q, x) : q \in shorter, x \in S}

\* What the landing page may hold: no card, one, a repeated card, two courts,
\* two courts whose names sanitize alike, a card without a link.
CardLists ==
    { <<>>, <<Card1>>, <<Card1, Card1>>, <<Card1, Card2>>, <<Card2, Card3>>,
      <<CardNoHref, Card2>> }

AllowLists ==
    { [present |-> FALSE, list |-> <<>>],
      [present |-> TRUE,  list |-> <<>>],
      [present |-> TRUE,  list |-> << <<"k">> >>],
      [present |-> TRUE,  list |-> << <<"S">>, <<"H", "Y", "d">> >>] }

\* What the options of the sub-court <select> may read: texts with and
\* without the "Select ..." entry, an option with empty text, and two options
\* with the same text.
OptSelect == <<"Select">>
OptA == <<"s", "1">>
OptB == <<"s", "2">>
OptionLists ==
    { <<>>, <<OptSelect>>, <<OptSelect, OptA>>, <<OptSelect, OptA, OptB>>,
      << <<>>, OptA>>, <<OptA, OptA>> }

\* sub_text = None: the jurisdiction page is paginated without a sub-court.
NoSub == <<>>

\* The portal of one run.  "free": every page's rows, links and next control
\* are chosen as the run goes.  "paged": a result set of `pages` pages of
\* `rows` rows, whose next control leads to the following page.  "stuck": a
\* next control that is always there and reloads the page already shown.
FreePortal ==
    [kind |-> "free", pages |-> 0, rows |-> 0, link |-> "none",
     urlMode |-> "none", markers |-> {}]

PageCounts == {1, 3, MAX_PAGES, MAX_PAGES + 1}
MarkerSets == { {}, {1}, 0..MAX_PAGES }

DeepPortals ==
    [kind : {"paged"}, pages : PageCounts, rows : 1..MaxRows,
     link : {"none", "ok", "fail"}, urlMode : {"none", "page"},
     markers : MarkerSets]
    \cup
    [kind : {"stuck"}, pages : {0}, rows : 1..MaxRows,
     link : {"none", "ok", "fail"}, urlMode : {"none", "page"},
     markers : MarkerSets]

\* ------------------------------------------------------------------ state
VARIABLES
    pc,             \* position of the single thread of control
    \* main
    selected,       \* SELECTED_COURTS
    majors, mi,     \* the list main iterates and the index of `major`
    ret_meta, ret_cases,   \* what scrape_major_court returned
    files,          \* output directory: file name -> content
    writes,         \* log of the files written, in order
    quit,           \* driver.quit() was called
    \* scrape_major_court
    subcourt_texts, si, all_cases, sr_no,
    skipped,        \* labels of the sub-courts that could not be selected
    navFailed,      \* indexes of the jurisdictions whose navigation failed
    pagRuns,        \* calls of handle_pagination_and_scrape for this major
    options,        \* the <option>s of the sub-court <select>, as last read
    selection,      \* the option lines 501-515 selected for the search to come
    \* handle_pagination_and_scrape
    sub_text, hp_all_cases, hp_sr_no, current_page, cases_page, detail_links, i,
    sr_in,          \* the counter the call was given
    extracts,       \* listing pages extracted by this call
    navs,           \* activations of the next control by this call
    stop,           \* why the page loop ended
    \* browser and portal
    portal, shown, urlPage, markers, tabs, focus,
    \* one call of a parsing function taken alone
    html,           \* the page source the function is given
    court_cards,    \* the `elements` find_major_courts_selenium collected
    result          \* what the function returned

mainVars == <<selected, majors, mi, ret_meta, ret_cases, files, writes, quit>>
smcVars  == <<subcourt_texts, si, all_cases, sr_no, skipped, navFailed, pagRuns,
              options, selection>>
hpVars   == <<sub_text, hp_all_cases, hp_sr_no, current_page, cases_page,
              detail_links, i, sr_in, extracts, navs, stop>>
pageVars == <<shown, urlPage, markers>>
tabVars  == <<tabs, focus>>
funVars  == <<html, court_cards, result>>
vars     == <<pc, mainVars, smcVars, hpVars, portal, pageVars, tabVars, funVars>>

\* No parsing function is being looked at on its own.
NoCall == html = "none" /\ court_cards = <<>> /\ result = "none"

NoMeta == [file_name |-> <<>>, description |-> "none"]

\* No option of the sub-court <select> is selected and waiting to be searched.
NoSelection == 0

Init ==
    /\ pc = "main_start"
    /\ selected \in AllowLists
    /\ majors = <<>> /\ mi = 0
    /\ ret_meta = NoMeta /\ ret_cases = <<>>
    /\ files = <<>> /\ writes = <<>> /\ quit = FALSE
    /\ subcourt_texts = <<>> /\ si = 0 /\ all_cases = <<>> /\ sr_no = 1
    /\ skipped = <<>> /\ navFailed = {} /\ pagRuns = 0
    /\ options = <<>> /\ selection = NoSelection
    /\ sub_text = NoSub /\ hp_all_cases = <<>> /\ hp_sr_no = 1
    /\ current_page = 1 /\ cases_page = <<>> /\ detail_links = <<>> /\ i = 0
    /\ sr_in = 1 /\ extracts = 0 /\ navs = 0 /\ stop = "none"
    /\ portal = FreePortal
    /\ shown = 1 /\ urlPage = 0 /\ markers = {}
    /\ tabs = 0 /\ focus = "primary"
    /\ NoCall

\* An exception nobody catches: it leaves every frame up to main, whose
\* driver.quit() at line 612 is not in a finally.
Crash == pc' = "crashed"

\* ------------------------------------------------------------------- main
MainStart ==
    /\ pc = "main_start"
    /\ \/ pc' = "main_discover" /\ UNCHANGED quit
       \/ quit' = TRUE /\ pc' = "done"
    /\ UNCHANGED <<selected, majors, mi, ret_meta, ret_cases, files, writes>>
    /\ UNCHANGED <<smcVars, hpVars, portal, pageVars, tabVars>>
    /\ UNCHANGED funVars

\* majors = find_major_courts_selenium(driver)
MainDiscover ==
    /\ pc = "main_discover"
    /\ \E elements \in CardLists :
          majors' = find_major_courts_selenium(elements)
    /\ pc' = "main_filter"
    /\ UNCHANGED <<selected, mi, ret_meta, ret_cases, files, writes, quit>>
    /\ UNCHANGED <<smcVars, hpVars, portal, pageVars, tabVars>>
    /\ UNCHANGED funVars

\* if SELECTED_COURTS: majors = [m for m in majors if should_scrape_court(...)];
\* if len(majors) == 0: driver.quit(); return
MainFilter ==
    /\ pc = "main_filter"
    /\ LET kept == IF Truthy(selected) THEN FilterMajors(majors, selected)
                   ELSE majors
       IN  /\ majors' = kept
           /\ IF Truthy(selected) /\ Len(kept) = 0
              THEN quit' = TRUE /\ pc' = "done" /\ mi' = mi
              ELSE quit' = quit /\ pc' = "main_loop" /\ mi' = 1
    /\ UNCHANGED <<selected, ret_meta, ret_cases, files, writes>>
    /\ UNCHANGED <<smcVars, hpVars, portal, pageVars, tabVars>>
    /\ UNCHANGED funVars

\* for major in majors: ... scrape_major_court(driver, major); after the loop
\* driver.quit().
MainLoop ==
    /\ pc = "main_loop"
    /\ IF mi <= Len(majors)
       THEN /\ pc' = "smc_nav"
            /\ subcourt_texts' = <<>> /\ si' = 0 /\ all_cases' = <<>> /\ sr_no' = 1
            /\ skipped' = <<>> /\ pagRuns' = 0
            /\ options' = <<>> /\ selection' = NoSelection
            /\ UNCHANGED <<quit, navFailed>>
       ELSE /\ quit' = TRUE /\ pc' = "done"
            /\ UNCHANGED smcVars
    /\ UNCHANGED <<selected, majors, mi, ret_meta, ret_cases, files, writes>>
    /\ UNCHANGED <<hpVars, portal, pageVars, tabVars>>
    /\ UNCHANGED funVars

MainWrite ==
    /\ pc = "main_write"
    /\ LET out == [court |-> majors[mi].name, href |-> majors[mi].href,
                   description |-> ret_meta.description,
                   ncases |-> Len(ret_cases)]
       IN  /\ files' = (ret_meta.file_name :> out) @@ files
           /\ writes' = Append(writes, [major |-> mi, file_name |-> ret_meta.file_name,
                                        out |-> out])
    /\ mi' = mi + 1
    /\ ret_meta' = NoMeta /\ ret_cases' = <<>>
    /\ pc' = "main_loop"
    /\ UNCHANGED <<selected, majors, quit>>
    /\ UNCHANGED <<smcVars, hpVars, portal, pageVars, tabVars>>
    /\ UNCHANGED funVars

\* ----------------------------------------- handle_pagination_and_scrape: call
\* The first page of the result set the browser shows when the call starts.
FirstUrl == IF portal.kind # "free" /\ portal.urlMode = "page" THEN 1 ELSE 0

\* handle_pagination_and_scrape(driver, major_name, sub, sr): locals at entry.
HPCall(sub, sr) ==
    /\ pc' = "hp_while"
    /\ sub_text' = sub
    /\ hp_all_cases' = <<>>
    /\ hp_sr_no' = sr /\ sr_in' = sr
    /\ current_page' = 1
    /\ cases_page' = <<>> /\ detail_links' = <<>> /\ i' = 0
    /\ extracts' = 0 /\ navs' = 0 /\ stop' = "none"
    /\ shown' = 1 /\ urlPage' = FirstUrl /\ markers' = portal.markers
    /\ pagRuns' = pagRuns + 1

\* ------------------------------------------------------ scrape_major_court
\* `txt and "Select" not in txt`
IsSubcourtOption(txt) == txt # <<>> /\ ~IsSubstr(<<"Select">>, txt)

RECURSIVE SubcourtTexts(_)
SubcourtTexts(opts) ==
    IF opts = <<>> THEN <<>>
    ELSE IF IsSubcourtOption(Head(opts))
         THEN <<Head(opts)>> \o SubcourtTexts(Tail(opts))
         ELSE SubcourtTexts(Tail(opts))

FailedMeta(major_name) ==
    [file_name |-> FileName(major_name), description |-> "Failed to open major court"]

CasesMeta(major_name) ==
    [file_name |-> FileName(major_name), description |-> "Cases extracted for major court"]

\* The loop `for sub_text, sub_val in subcourt_texts` at its k-th element.
SubLoopPc(k) == IF k <= Len(subcourt_texts) THEN "smc_select" ELSE "smc_return"

\* Mutant: the except branch does not return and the function goes on.
NavFailureFallsThrough == "smc_search"

\* except Exception as e: ... return {...}, []
NavFailurePc == "main_write"

SMCNavigate ==
    /\ pc = "smc_nav"
    /\ \/ /\ pc' = "smc_search"
          /\ UNCHANGED <<ret_meta, ret_cases, navFailed>>
       \/ /\ ret_meta' = FailedMeta(majors[mi].name)
          /\ ret_cases' = <<>>
          /\ navFailed' = navFailed \cup {mi}
          /\ pc' = NavFailurePc
    /\ UNCHANGED <<selected, majors, mi, files, writes, quit>>
    /\ UNCHANGED <<subcourt_texts, si, all_cases, sr_no, skipped, pagRuns>>
    /\ UNCHANGED <<options, selection>>
    /\ UNCHANGED <<hpVars, portal, pageVars, tabVars>>
    /\ UNCHANGED funVars

\* The first search click: every failure is caught and logged.
SMCSearch ==
    /\ pc = "smc_search"
    /\ pc' = "smc_options"
    /\ UNCHANGED <<mainVars, smcVars, hpVars, portal, pageVars, tabVars>>
    /\ UNCHANGED funVars

SMCOptions ==
    /\ pc = "smc_options"
    /\ \/ \* a <select> was found: read its options
          \E opts \in OptionLists :
            LET texts == SubcourtTexts(opts)
            IN  /\ subcourt_texts' = texts
                /\ options' = opts
                /\ IF texts = <<>>
                   THEN /\ si' = 0
                        /\ HPCall(NoSub, sr_no)
                   ELSE /\ si' = 1
                        /\ pc' = "smc_select"
                        /\ UNCHANGED <<hpVars, pageVars, pagRuns>>
       \/ \* no <select> on the page
          /\ subcourt_texts' = <<>> /\ si' = 0 /\ options' = <<>>
          /\ HPCall(NoSub, sr_no)
       \/ \* reading the options raises (lines 485-490 are in no try)
          /\ Crash
          /\ UNCHANGED <<subcourt_texts, si, hpVars, pageVars, pagRuns, options>>
    /\ UNCHANGED <<mainVars, all_cases, sr_no, skipped, navFailed, selection, portal,
                   tabVars>>
    /\ UNCHANGED funVars

\* val = o.get_attribute("value") of the options kept in subcourt_texts: an
\* option's value is its position in the <select>.
RECURSIVE SubcourtVals(_, _)
SubcourtVals(opts, n) ==
    IF n = 0 THEN <<>>
    ELSE IF IsSubcourtOption(opts[n])
         THEN Append(SubcourtVals(opts, n - 1), n)
         ELSE SubcourtVals(opts, n - 1)

\* select_by_visible_text(sub_text) selects the first option of the
\* <select> that has this text.
FirstWithText(opts, txt) ==
    CHOOSE k \in 1..Len(opts) :
        opts[k] = txt /\ \A j \in 1..(k - 1) : opts[j] # txt

\* How lines 501-515 may go: the <select> is found again and the option is
\* selected by its text ("text"); selecting by text raises and the option is
\* selected by its value ("value"); or select_by_value raises as well, as it
\* does through a Select whose element is no longer on the page ("skip").
SelectOffers == {"text", "value", "skip"}

\* The position of the option that is then selected in the browser.
SelectionMade(how) ==
    IF how = "text" THEN FirstWithText(options, subcourt_texts[si])
    ELSE SubcourtVals(options, Len(options))[si]

SMCSelect ==
    /\ pc = "smc_select"
    /\ \E how \in SelectOffers :
          IF how # "skip"
          THEN /\ selection' = SelectionMade(how)
               /\ pc' = "smc_subsearch"
               /\ UNCHANGED <<si, skipped>>
          ELSE \* logging.warning(...); continue
               /\ skipped' = Append(skipped, subcourt_texts[si])
               /\ si' = si + 1
               /\ pc' = SubLoopPc(si + 1)
               /\ UNCHANGED selection
    /\ UNCHANGED <<mainVars, subcourt_texts, all_cases, sr_no, navFailed, pagRuns>>
    /\ UNCHANGED options
    /\ UNCHANGED <<hpVars, portal, pageVars, tabVars>>
    /\ UNCHANGED funVars

SMCSubSearch ==
    /\ pc = "smc_subsearch"
    /\ \/ \* button found or not, click done or not, table there or timed out
          /\ HPCall(subcourt_texts[si], sr_no)
          /\ selection' = NoSelection
       \/ \* WebDriverWait raises something other than TimeoutException
          /\ Crash
          /\ UNCHANGED <<hpVars, pageVars, pagRuns, selection>>
    /\ UNCHANGED <<mainVars, subcourt_texts, si, all_cases, sr_no, skipped, navFailed>>
    /\ UNCHANGED options
    /\ UNCHANGED <<portal, tabVars>>
    /\ UNCHANGED funVars

\* Mutant: the orchestrator restarts the numbering for every sub-court.
ThreadCounterRestarted(returned) == 1

\* cases, sr_no = handle_pagination_and_scrape(...); all_cases.extend(cases)
ThreadCounter(returned) == returned

\* The callee's frame is gone once it has returned.
HPFrameGone ==
    /\ sub_text' = NoSub /\ hp_all_cases' = <<>> /\ hp_sr_no' = 1
    /\ current_page' = 1 /\ cases_page' = <<>> /\ detail_links' = <<>> /\ i' = 0
    /\ sr_in' = 1 /\ extracts' = 0 /\ navs' = 0 /\ stop' = "none"

SMCCollect ==
    /\ pc = "hp_return"
    /\ all_cases' = all_cases \o hp_all_cases
    /\ sr_no' = ThreadCounter(hp_sr_no)
    /\ IF si = 0
       THEN pc' = "smc_return" /\ si' = si
       ELSE pc' = SubLoopPc(si + 1) /\ si' = si + 1
    /\ HPFrameGone
    /\ UNCHANGED <<mainVars, subcourt_texts, skipped, navFailed, pagRuns>>
    /\ UNCHANGED <<options, selection>>
    /\ UNCHANGED <<portal, pageVars, tabVars>>
    /\ UNCHANGED funVars

SMCReturn ==
    /\ pc = "smc_return"
    /\ ret_meta' = CasesMeta(majors[mi].name)
    /\ ret_cases' = all_cases
    /\ pc' = "main_write"
    /\ subcourt_texts' = <<>> /\ si' = 0 /\ all_cases' = <<>> /\ sr_no' = 1
    /\ skipped' = <<>> /\ pagRuns' = 0
    /\ options' = <<>> /\ selection' = NoSelection
    /\ UNCHANGED <<selected, majors, mi, files, writes, quit, navFailed>>
    /\ UNCHANGED <<hpVars, portal, pageVars, tabVars>>
    /\ UNCHANGED funVars

\* ------------------------------------------------- extract_cases_from_html
\* Python's None where the model holds text.
NoneVal == <<"None">>

DigitChars == <<"0", "1", "2", "3", "4", "5", "6", "7", "8", "9">>

\* str(n) for n >= 0
RECURSIVE Dec(_)
Dec(n) ==
    IF n < 10 THEN <<DigitChars[n + 1]>>
    ELSE Dec(n \div 10) \o <<DigitChars[(n % 10) + 1]>>

\* Mutant: the positional key counts the cells from one.
ColIndexOneBased(n) == n + 1

\* `for i, td in enumerate(tds)`: the position that goes into f"col_{i}"
ColIndex(n) == n

\* f"col_{i}"
ColKey(n) == <<"c", "o", "l", "_">> \o Dec(ColIndex(n))

CourtKey == <<"c", "o", "u", "r", "t">>
CircuitKey == <<"c", "i", "r", "c", "u", "i", "t", "_", "c", "o", "d", "e">>

\* A listing page is [table, thead, tbody, trs]: whether it has a <table>,
\* a <thead>, a <tbody>, and the <tr> of the table in document order, each
\* [sect, ths, tds] with the element it sits in, the texts of its <th> and
\* its <td> cells, a cell being [text, href] (href NoneVal: no <a href>).
HeaderSects(page) ==
    IF page.thead THEN {"thead"} ELSE {"thead", "tbody", "table"}

\* table.find("thead").find("tr") if table.find("thead") else table.find("tr")
\* gives None
NoHeaderRow(page) ==
    \A k \in 1..Len(page.trs) : page.trs[k].sect \notin HeaderSects(page)

\* ... or gives the first such <tr>
HeaderRow(page) ==
    page.trs[CHOOSE k \in 1..Len(page.trs) :
                /\ page.trs[k].sect \in HeaderSects(page)
                /\ \A j \in 1..(k - 1) : page.trs[j].sect \notin HeaderSects(page)]

\* table.find("tbody").find_all("tr") if table.find("tbody")
\*   else table.find_all("tr")[1:]
InTbody(tr) == tr.sect = "tbody"

BodyRows(page) ==
    IF page.tbody THEN SelectSeq(page.trs, InTbody)
    ELSE IF page.trs = <<>> THEN <<>> ELSE Tail(page.trs)

\* key = header_cells[i] if i < len(header_cells) else f"col_{i}"
CellKey(header_cells, n) ==
    IF n < Len(header_cells) THEN header_cells[n + 1] ELSE ColKey(n)

\* entry = {}; for i, td in enumerate(tds): entry[key] = val -- after the
\* first n cells; a later assignment to the same key replaces the earlier.
RECURSIVE EntryUpTo(_, _, _)
EntryUpTo(tds, header_cells, n) ==
    IF n = 0 THEN <<>>
    ELSE (CellKey(header_cells, n - 1) :> tds[n].text)
            @@ EntryUpTo(tds, header_cells, n - 1)

\* Mutant: the fixed fields are set before the cells are read.
RowEntryCellsLast(tds, header_cells, major_name, subcourt_name) ==
    EntryUpTo(tds, header_cells, Len(tds))
        @@ (CircuitKey :> (IF subcourt_name # NoSub THEN subcourt_name ELSE major_name))
        @@ (CourtKey :> major_name)

\* One row of the loop of lines 213-229 that has cells.
RowEntry(tds, header_cells, major_name, subcourt_name) ==
    (CircuitKey :> (IF subcourt_name # NoSub THEN subcourt_name ELSE major_name))
        @@ (CourtKey :> major_name)
        @@ EntryUpTo(tds, header_cells, Len(tds))

\* header_row is None and header_row.find_all raises AttributeError.
ExtractRaises(page) == page.table /\ NoHeaderRow(page)

\* The loop over rows[1..n]: the two lists built so far.
RECURSIVE ExtractUpTo(_, _, _, _, _)
ExtractUpTo(rows, header_cells, major_name, subcourt_name, n) ==
    IF n = 0 THEN [cases |-> <<>>, detail_links |-> <<>>]
    ELSE LET prev == ExtractUpTo(rows, header_cells, major_name, subcourt_name, n - 1)
             tds == rows[n].tds
         IN  IF tds = <<>> THEN prev
             ELSE [cases |-> Append(prev.cases,
                                    RowEntry(tds, header_cells, major_name,
                                             subcourt_name)),
                   detail_links |-> Append(prev.detail_links, tds[Len(tds)].href)]

\* Defined when ExtractRaises(page) is false.
extract_cases_from_html(page, major_name, subcourt_name) ==
    IF ~page.table THEN [cases |-> <<>>, detail_links |-> <<>>]
    ELSE ExtractUpTo(BodyRows(page), HeaderRow(page).ths, major_name,
                     subcourt_name, Len(BodyRows(page)))

\* ------------------------------------------- handle_pagination_and_scrape
\* What the environment may put on the listing page being extracted: one
\* entry per body row, TRUE when the row's last cell has an anchor with href.
RowOffers ==
    IF portal.kind = "free"
    THEN {q \in SeqsUpTo(BOOLEAN, MaxRows) : (hp_sr_no - 1) + Len(q) <= MaxCases}
    ELSE {[r \in 1..portal.rows |-> portal.link # "none"]}

\* How loading and resolving a detail page may end.
DetailOffers ==
    IF portal.kind = "free" THEN {"ok", "fail"} ELSE {portal.link}

\* What looking for `li.next:not(.disabled)` and its `a[data-page]` may give.
NextCtlOffers ==
    CASE portal.kind = "free"  -> {"nonext", "found"}
      [] portal.kind = "paged" -> IF shown < portal.pages THEN {"found"} ELSE {"nonext"}
      [] portal.kind = "stuck" -> {"found"}

\* The page shown after driver.get(href) of the next control returned.
NavOffers ==
    CASE portal.kind = "free" ->
            { [shown |-> shown + 1, urlPage |-> shown + 1, markers |-> {}],
              [shown |-> shown + 1, urlPage |-> 0, markers |-> {}],
              [shown |-> shown, urlPage |-> urlPage, markers |-> {current_page}],
              [shown |-> shown, urlPage |-> urlPage, markers |-> markers] }
      [] portal.kind = "paged" ->
            {[shown |-> shown + 1,
              urlPage |-> IF portal.urlMode = "page" THEN shown + 1 ELSE 0,
              markers |-> portal.markers]}
      [] portal.kind = "stuck" ->
            {[shown |-> shown, urlPage |-> urlPage, markers |-> markers]}

\* The table the live portal shows has a column named court and a column
\* named circuit_code, each with a text of its own in every row.
LiveHeader == <<CourtKey, CircuitKey>>
LiveCells ==
    << [text |-> <<"x">>, href |-> NoneVal], [text |-> <<"y">>, href |-> NoneVal] >>

\* extract_cases_from_html(html, major_name, sub_text), for the rows shown:
\* one record per row, with the court and circuit_code its dict ends with.
NewRecord(major_name, sub, page, row) ==
    LET entry == RowEntry(LiveCells, LiveHeader, major_name, sub)
    IN  [court |-> entry[CourtKey],
         circuit_code |-> entry[CircuitKey],
         page |-> page, row |-> row,
         details |-> "absent", sr_no |-> 0]

\* while current_page <= MAX_PAGES
LoopGuard(cp) == cp <= MAX_PAGES

\* Mutant: the bound on looking for the next control is off by one.
MayAdvanceOffByOne(cp) == cp <= MAX_PAGES

\* if current_page < MAX_PAGES
MayAdvance(cp) == cp < MAX_PAGES

\* f"page={current_page + 1}" in current_url
\*   or f"data-page=\"{current_page}\"" in driver.page_source
ProgressVerified(cp, u, ms) == UrlHasPage(cp + 1, u) \/ cp \in ms

\* Mutant: a missing table is waited for again (continue for break).
AfterNoTableRetry == "hp_while"

\* except TimeoutException: ... break
AfterNoTable == "hp_return"

\* Mutant: a page without records goes on to look for the next control.
AfterNoRecordsSeeks == "hp_seek"

\* if not cases_page: ... break
AfterNoRecords == "hp_return"

\* c["sr_no"] = sr_no; sr_no += 1
NextSrNo(n) == n + 1

\* c["sr_no"] = sr_no; sr_no += 1; all_cases.append(c)
Finalize(c) ==
    /\ hp_all_cases' = Append(hp_all_cases, [c EXCEPT !.sr_no = hp_sr_no])
    /\ hp_sr_no' = NextSrNo(hp_sr_no)

HPWhile ==
    /\ pc = "hp_while"
    /\ IF LoopGuard(current_page)
       THEN pc' = "hp_wait" /\ stop' = stop
       ELSE pc' = "hp_return" /\ stop' = "loopguard"
    /\ UNCHANGED <<sub_text, hp_all_cases, hp_sr_no, current_page, cases_page,
                   detail_links, i, sr_in, extracts, navs>>
    /\ UNCHANGED <<mainVars, smcVars, portal, pageVars, tabVars>>
    /\ UNCHANGED funVars

HPWait ==
    /\ pc = "hp_wait"
    /\ \/ pc' = "hp_extract" /\ stop' = stop
       \/ pc' = AfterNoTable /\ stop' = "notable"
       \/ Crash /\ stop' = stop
    /\ UNCHANGED <<sub_text, hp_all_cases, hp_sr_no, current_page, cases_page,
                   detail_links, i, sr_in, extracts, navs>>
    /\ UNCHANGED <<mainVars, smcVars, portal, pageVars, tabVars>>
    /\ UNCHANGED funVars

HPExtract ==
    /\ pc = "hp_extract"
    /\ \/ \E links \in RowOffers :
            /\ extracts' = extracts + 1
            /\ cases_page' = [r \in 1..Len(links) |->
                                NewRecord(majors[mi].name, sub_text, shown, r)]
            /\ detail_links' = links
            /\ IF Len(links) = 0
               THEN pc' = AfterNoRecords /\ stop' = "norecords" /\ i' = i
               ELSE pc' = "hp_row" /\ stop' = stop /\ i' = 1
       \/ \* driver.page_source raises, or the table has no row at all and
          \* header_row.find_all raises: neither is caught
          /\ Crash
          /\ UNCHANGED <<extracts, cases_page, detail_links, i, stop>>
    /\ UNCHANGED <<sub_text, hp_all_cases, hp_sr_no, current_page, sr_in, navs>>
    /\ UNCHANGED <<mainVars, smcVars, portal, pageVars, tabVars>>
    /\ UNCHANGED funVars

HPRow ==
    /\ pc = "hp_row"
    /\ IF i > Len(cases_page)
       THEN /\ pc' = "hp_seek"
            /\ UNCHANGED <<hp_all_cases, hp_sr_no, cases_page, i>>
       ELSE IF detail_links[i]
       THEN /\ pc' = "hp_open"
            /\ UNCHANGED <<hp_all_cases, hp_sr_no, cases_page, i>>
       ELSE /\ cases_page' = [cases_page EXCEPT ![i].details = "default"]
            /\ Finalize(cases_page'[i])
            /\ i' = i + 1
            /\ pc' = "hp_row"
    /\ UNCHANGED <<sub_text, current_page, detail_links, sr_in, extracts, navs, stop>>
    /\ UNCHANGED <<mainVars, smcVars, portal, pageVars, tabVars>>
    /\ UNCHANGED funVars

\* driver.execute_script("window.open('');")
HPOpenTab ==
    /\ pc = "hp_open"
    /\ \/ tabs' = tabs + 1 /\ pc' = "hp_switch"
       \/ tabs' = tabs /\ Crash
    /\ UNCHANGED <<focus, mainVars, smcVars, hpVars, portal, pageVars>>
    /\ UNCHANGED funVars

\* driver.switch_to.window(driver.window_handles[-1])
HPSwitchTab ==
    /\ pc = "hp_switch"
    /\ \/ focus' = "secondary" /\ pc' = "hp_detail"
       \/ focus' = focus /\ Crash
    /\ UNCHANGED <<tabs, mainVars, smcVars, hpVars, portal, pageVars>>
    /\ UNCHANGED funVars

\* try: driver.get(full); ...; c["details"] = ...  except Exception: log
HPDetail ==
    /\ pc = "hp_detail"
    /\ \/ /\ "ok" \in DetailOffers
          /\ cases_page' = [cases_page EXCEPT ![i].details = "resolved"]
       \/ /\ "fail" \in DetailOffers
          /\ cases_page' = cases_page
    /\ pc' = "hp_close"
    /\ UNCHANGED <<sub_text, hp_all_cases, hp_sr_no, current_page, detail_links, i,
                   sr_in, extracts, navs, stop>>
    /\ UNCHANGED <<mainVars, smcVars, portal, pageVars, tabVars>>
    /\ UNCHANGED funVars

\* Mutant: the tab is not closed.
CloseTabOmitted(n) == n

\* finally: driver.close()
CloseTab(n) == n - 1

HPCloseTab ==
    /\ pc = "hp_close"
    /\ \/ tabs' = CloseTab(tabs) /\ focus' = "none" /\ pc' = "hp_restore"
       \/ UNCHANGED tabVars /\ Crash
    /\ UNCHANGED <<mainVars, smcVars, hpVars, portal, pageVars>>
    /\ UNCHANGED funVars

\* finally: driver.switch_to.window(driver.window_handles[0]); then the
\* record is finalized.
HPRestore ==
    /\ pc = "hp_restore"
    /\ \/ /\ focus' = "primary"
          /\ Finalize(cases_page[i])
          /\ i' = i + 1
          /\ pc' = "hp_row"
       \/ /\ Crash
          /\ UNCHANGED <<focus, hp_all_cases, hp_sr_no, i>>
    /\ UNCHANGED <<sub_text, current_page, cases_page, detail_links, sr_in,
                   extracts, navs, stop>>
    /\ UNCHANGED <<tabs, mainVars, smcVars, portal, pageVars>>
    /\ UNCHANGED funVars

\* next_found = False; if current_page < MAX_PAGES: find the next control.
\* "nonext": NoSuchElementException; "error": any other exception; "nohref":
\* the anchor has no href.  Each ends the loop; "found" goes on to navigate.
SeekOffers ==
    IF MayAdvance(current_page)
    THEN NextCtlOffers \cup {"error", "nohref"}
    ELSE {"maxpages"}

HPSeekNext ==
    /\ pc = "hp_seek"
    /\ \E o \in SeekOffers :
          IF o = "found"
          THEN pc' = "hp_nav" /\ stop' = stop
          ELSE pc' = "hp_return" /\ stop' = o
    /\ UNCHANGED <<sub_text, hp_all_cases, hp_sr_no, current_page, cases_page,
                   detail_links, i, sr_in, extracts, navs>>
    /\ UNCHANGED <<mainVars, smcVars, portal, pageVars, tabVars>>
    /\ UNCHANGED funVars

\* driver.get(href), then the check that the page moved on.
HPNavigate ==
    /\ pc = "hp_nav"
    /\ \/ \E nav \in NavOffers :
            /\ shown' = nav.shown /\ urlPage' = nav.urlPage /\ markers' = nav.markers
            /\ navs' = navs + 1
            /\ IF ProgressVerified(current_page, nav.urlPage, nav.markers)
               THEN current_page' = current_page + 1 /\ pc' = "hp_while" /\ stop' = stop
               ELSE current_page' = current_page /\ pc' = "hp_return"
                    /\ stop' = "noprogress"
       \/ \* driver.get, current_url or page_source raises: caught, break
          /\ pc' = "hp_return" /\ stop' = "error"
          /\ UNCHANGED <<current_page, navs, pageVars>>
    /\ UNCHANGED <<sub_text, hp_all_cases, hp_sr_no, cases_page, detail_links, i,
                   sr_in, extracts>>
    /\ UNCHANGED <<mainVars, smcVars, portal, tabVars>>
    /\ UNCHANGED funVars

\* ------------------------------- listing pages for extract_cases_from_html
LabelA == <<"N", "o">>
LabelB == <<"T">>
LabelC == <<"A", "c", "t">>

\* Header rows: up to MaxHeader distinct labels, a repeated label, a label
\* that reads like a fixed field, one that reads like a positional key.
Headers ==
    { SubSeq(<<LabelA, LabelB, LabelC, <<"X">>, <<"Y">>, <<"Z">> >>, 1, n) :
        n \in 0..MaxHeader }
    \cup { <<LabelA, LabelA>>, <<CourtKey, LabelB>>, << <<"c", "o", "l", "_", "1">> >> }

\* A body row is given by its number of cells and by where its anchor is:
\* nowhere, in the last cell, or in the first cell only.
RowShapes ==
    [cells : {0, 1, MaxCells - 1, MaxCells}, link : {"none", "last"}]
    \cup {[cells |-> 2, link |-> "first"]}

\* Cell k of body row r: text "v<r>.<k>", and the anchor "d<r>" if it has one.
MkCell(r, k, shape) ==
    [text |-> <<"v">> \o Dec(r) \o <<".">> \o Dec(k),
     href |-> IF \/ shape.link = "last" /\ k = shape.cells
                 \/ shape.link = "first" /\ k = 1
              THEN <<"d">> \o Dec(r) ELSE NoneVal]

MkRow(r, shape, sect) ==
    [sect |-> sect, ths |-> <<>>,
     tds |-> [k \in 1..shape.cells |-> MkCell(r, k, shape)]]

\* The page with the given header <tr> (if any) followed by the body rows.
MkPage(thead, tbody, hasHeaderTr, labels, shapes) ==
    [table |-> TRUE, thead |-> thead, tbody |-> tbody,
     trs |-> (IF hasHeaderTr
              THEN << [sect |-> IF thead THEN "thead" ELSE "table",
                       ths |-> labels, tds |-> <<>>] >>
              ELSE <<>>)
             \o [r \in 1..Len(shapes) |->
                    MkRow(r, shapes[r], IF tbody THEN "tbody" ELSE "table")]]

NoTablePage == [table |-> FALSE, thead |-> FALSE, tbody |-> FALSE, trs |-> <<>>]

ListingPages ==
    {NoTablePage}
    \cup { MkPage(th, tb, TRUE, labels, shapes) :
             th \in BOOLEAN, tb \in BOOLEAN, labels \in Headers,
             shapes \in SeqsUpTo(RowShapes, MaxTableRows) }
    \cup { MkPage(th, tb, FALSE, <<>>, shapes) :
             th \in BOOLEAN, tb \in BOOLEAN,
             shapes \in SeqsUpTo(RowShapes, MaxTableRows) }

\* cases_page, detail_links = extract_cases_from_html(html, major_name, sub_text)
ExtractCall ==
    /\ pc = "ex_call"
    /\ IF ExtractRaises(html)
       THEN /\ pc' = "ex_raised"
            /\ result' = [cases |-> <<>>, detail_links |-> <<>>]
       ELSE /\ pc' = "ex_returned"
            /\ result' = extract_cases_from_html(html, majors[mi].name, sub_text)
    /\ UNCHANGED <<html, court_cards>>
    /\ UNCHANGED <<mainVars, smcVars, hpVars, portal, pageVars, tabVars>>

\* ------------------------------------------- extract_case_detail_from_html
\* The sentinel "NA".
NA == <<"N", "A">>

\* Mutant: a field that is not found is left empty.
PickDefaultEmpty == <<>>

\* pick_one: `return "NA"` when no selector gives text
PickDefault == NA

\* pick_one(selectors) on a page where the selectors give `found` (NoneVal:
\* no element, or elements without text).
pick_one(found) == IF found # NoneVal THEN found ELSE PickDefault

HearingFields == {"date", "list", "stage", "bench", "remarks"}

\* labels = ["Case ID", "Institution Date", ...]
profile_labels ==
    << <<"C", "a", "s", "e", " ", "I", "D">>,
       <<"I", "n", "s", "t", "i", "t", "u", "t", "i", "o", "n", " ", "D", "a", "t", "e">>,
       <<"D", "i", "s", "p", "o", "s", "a", "l", " ", "D", "a", "t", "e">>,
       <<"D", "i", "s", "p", "o", "s", "a", "l", " ", "B", "e", "n", "c", "h">>,
       <<"N", "a", "t", "u", "r", "e", " ", "O", "f", " ", "D", "i", "s", "p", "o", "s", "a", "l">> >>

\* lab.lower().replace(" ", "_")
ProfileKey(lab) ==
    [k \in 1..Len(lab) |-> IF Lower(lab)[k] = " " THEN "_" ELSE Lower(lab)[k]]

\* A detail page is [summary, tagline, hearing, parties, profile, anchors]:
\* the text its summary and tagline selectors give (NoneVal: nothing), the
\* last-hearing fields whose selectors give text, the lines of its party
\* table, the positions in profile_labels of the labels its text holds, and its
\* <a href> in document order, each [href, txt].
\* profile = {}; for lab in labels: ... profile[key] = val
ProfileOf(page) ==
    [key \in {ProfileKey(profile_labels[n]) : n \in page.profile} |-> <<"v">>]

\* href.lower().endswith(".pdf")
IsPdf(href) == href # <<>> /\ LowerChar(href[Len(href)]) = ".pdf"

\* "memo" in txt or "petition" in txt, after txt = a.get_text(...).lower()
IsPetitionText(txt) ==
    IsSubstr(<<"memo">>, Lower(txt)) \/ IsSubstr(<<"petition">>, Lower(txt))

\* "judgement" in txt or "judgment" in txt or "order" in txt
IsJudgementText(txt) ==
    \/ IsSubstr(<<"judgement">>, Lower(txt))
    \/ IsSubstr(<<"judgment">>, Lower(txt))
    \/ IsSubstr(<<"order">>, Lower(txt))

\* urljoin(BASE_URL, href)
UrlJoin(href) == <<"BASE_URL/">> \o href

\* The loop over soup.find_all("a", href=True)[1..n]: documents so far.
RECURSIVE DocumentsUpTo(_, _)
DocumentsUpTo(anchors, n) ==
    IF n = 0 THEN [petition_memo |-> NA, judgement_order |-> NA]
    ELSE LET prev == DocumentsUpTo(anchors, n - 1)
             a == anchors[n]
         IN  IF ~IsPdf(a.href) THEN prev
             ELSE IF IsPetitionText(a.txt)
                  THEN [prev EXCEPT !.petition_memo = UrlJoin(a.href)]
             ELSE IF IsJudgementText(a.txt)
                  THEN [prev EXCEPT !.judgement_order = UrlJoin(a.href)]
             ELSE prev

extract_case_detail_from_html(page) ==
    [summary |-> pick_one(page.summary),
     tagline |-> pick_one(page.tagline),
     details |->
        [profile |-> ProfileOf(page),
         last_hearing |->
            [f \in HearingFields |->
                pick_one(IF f \in page.hearing THEN <<"h">> ELSE NoneVal)],
         parties |-> [k \in 1..Len(page.parties) |-> [name |-> page.parties[k]]],
         advocates |-> [applicant |-> <<>>, respondent |-> <<>>],
         documents |-> DocumentsUpTo(page.anchors, Len(page.anchors))]]

\* ---- detail pages given to the function
AnchorKinds == {"memo", "petition", "order", "judgment", "other", "memo_htm"}

\* The k-th anchor of the page, of the given kind: its href names k.
MkAnchor(k, kind) ==
    [href |-> <<"d">> \o Dec(k)
                \o <<(CASE kind = "memo_htm" -> ".htm"
                        [] kind = "petition" -> ".PDF"
                        [] OTHER -> ".pdf")>>,
     txt  |-> CASE kind = "memo"     -> <<"Memo">>
                [] kind = "memo_htm" -> <<"memo">>
                [] kind = "petition" -> <<"petition">>
                [] kind = "order"    -> <<"Order">>
                [] kind = "judgment" -> <<"judgment">>
                [] OTHER             -> <<"x">>]

DetailPages ==
    { [summary |-> sm, tagline |-> tg, hearing |-> hr, parties |-> pt,
       profile |-> pf,
       anchors |-> [k \in 1..Len(kinds) |-> MkAnchor(k, kinds[k])]] :
        sm \in {NoneVal, <<"s">>}, tg \in {NoneVal, <<"t">>},
        hr \in {{}, {"date"}, HearingFields},
        pt \in {<<>>, << <<"p">> >>},
        pf \in {{}, {1}},
        kinds \in SeqsUpTo(AnchorKinds, MaxAnchors) }

\* detail_data = extract_case_detail_from_html(driver.page_source)
DetailCall ==
    /\ pc = "dt_call"
    /\ result' = extract_case_detail_from_html(html)
    /\ pc' = "dt_returned"
    /\ UNCHANGED <<html, court_cards>>
    /\ UNCHANGED <<mainVars, smcVars, hpVars, portal, pageVars, tabVars>>

\* ---------------------------------------------- find_major_courts_selenium
\* The `elements` the first loop may have collected from the cards.
ElementLists == SeqsUpTo({Card1, Card2, CardSameLink, CardNoHref}, MaxCards)

\* The dedupe loop and `return uniques`.
DiscoverCall ==
    /\ pc = "fm_call"
    /\ result' = find_major_courts_selenium(court_cards)
    /\ pc' = "fm_returned"
    /\ UNCHANGED <<html, court_cards>>
    /\ UNCHANGED <<mainVars, smcVars, hpVars, portal, pageVars, tabVars>>

\* ---------------------------------------------------------- specifications
HPNext ==
    \/ HPWhile \/ HPWait \/ HPExtract \/ HPRow
    \/ HPOpenTab \/ HPSwitchTab \/ HPDetail \/ HPCloseTab \/ HPRestore
    \/ HPSeekNext \/ HPNavigate

Next ==
    \/ MainStart \/ MainDiscover \/ MainFilter \/ MainLoop \/ MainWrite
    \/ SMCNavigate \/ SMCSearch \/ SMCOptions \/ SMCSelect \/ SMCSubSearch
    \/ SMCCollect \/ SMCReturn
    \/ HPNext

\* The whole program, from main().
Spec == Init /\ [][Next]_vars

\* One call of handle_pagination_and_scrape on a portal of a given shape.
InitPag ==
    /\ portal \in DeepPortals
    /\ pc = "hp_while"
    /\ selected = [present |-> FALSE, list |-> <<>>]
    /\ majors = <<Card1>> /\ mi = 1
    /\ ret_meta = NoMeta /\ ret_cases = <<>>
    /\ files = <<>> /\ writes = <<>> /\ quit = FALSE
    /\ sub_text \in {NoSub, OptA}
    /\ subcourt_texts = (IF sub_text = NoSub THEN <<>> ELSE <<sub_text>>)
    /\ si = Len(subcourt_texts)
    /\ all_cases = <<>> /\ sr_no = 1
    /\ skipped = <<>> /\ navFailed = {} /\ pagRuns = 1
    /\ options = subcourt_texts /\ selection = NoSelection
    /\ hp_all_cases = <<>> /\ hp_sr_no = 1
    /\ current_page = 1 /\ cases_page = <<>> /\ detail_links = <<>> /\ i = 0
    /\ sr_in = 1 /\ extracts = 0 /\ navs = 0 /\ stop = "none"
    /\ shown = 1 /\ urlPage = FirstUrl /\ markers = portal.markers
    /\ tabs = 0 /\ focus = "primary"
    /\ NoCall

SpecPag == InitPag /\ [][HPNext]_vars

\* The scheduler never stops the single thread while it has a step to take.
FairSpecPag == SpecPag /\ WF_vars(HPNext)

\* The state of the program outside the function looked at.
RestIdle ==
    /\ selected = [present |-> FALSE, list |-> <<>>]
    /\ ret_meta = NoMeta /\ ret_cases = <<>>
    /\ files = <<>> /\ writes = <<>> /\ quit = FALSE
    /\ subcourt_texts = <<>> /\ si = 0 /\ all_cases = <<>> /\ sr_no = 1
    /\ skipped = <<>> /\ navFailed = {} /\ pagRuns = 0
    /\ options = <<>> /\ selection = NoSelection
    /\ hp_all_cases = <<>> /\ hp_sr_no = 1
    /\ current_page = 1 /\ cases_page = <<>> /\ detail_links = <<>> /\ i = 0
    /\ sr_in = 1 /\ extracts = 0 /\ navs = 0 /\ stop = "none"
    /\ portal = FreePortal
    /\ shown = 1 /\ urlPage = 0 /\ markers = {}
    /\ tabs = 0 /\ focus = "primary"

\* One call of extract_cases_from_html on a listing page.
InitExtract ==
    /\ pc = "ex_call"
    /\ html \in ListingPages
    /\ court_cards = <<>> /\ result = "none"
    /\ majors = <<Card1>> /\ mi = 1
    /\ sub_text \in {NoSub, OptA}
    /\ RestIdle

SpecExtract == InitExtract /\ [][ExtractCall]_vars

\* One call of find_major_courts_selenium, from the end of its first loop.
InitDiscover ==
    /\ pc = "fm_call"
    /\ court_cards \in ElementLists
    /\ html = "none" /\ result = "none"
    /\ majors = <<>> /\ mi = 0 /\ sub_text = NoSub
    /\ RestIdle

SpecDiscover == InitDiscover /\ [][DiscoverCall]_vars

\* One call of extract_case_detail_from_html on a detail page.
InitDetail ==
    /\ pc = "dt_call"
    /\ html \in DetailPages
    /\ court_cards = <<>> /\ result = "none"
    /\ majors = <<>> /\ mi = 0 /\ sub_text = NoSub
    /\ RestIdle

SpecDetail == InitDetail /\ [][DetailCall]_vars

\* ------------------------------------------------------------------ claims
InHP ==
    pc \in {"hp_while", "hp_wait", "hp_extract", "hp_row", "hp_open", "hp_switch",
            "hp_detail", "hp_close", "hp_restore", "hp_seek", "hp_nav", "hp_return"}

Numbered(cases) == \A k \in 1..Len(cases) : cases[k].sr_no = k

\* C1: the cases scrape_major_court returns carry sr_no 1, 2, ..., N in list
\* order; each call of handle_pagination_and_scrape returns the counter it
\* was given plus the number of records it returns, and is given the counter
\* the previous call left.
SrNoSequence ==
    /\ (pc = "hp_return" => hp_sr_no = sr_in + Len(hp_all_cases))
    /\ (InHP => sr_in = Len(all_cases) + 1)
    /\ (pc = "smc_return" => Numbered(all_cases))
    /\ (pc = "main_write" => Numbered(ret_cases))

\* Two sub-courts each gave a record to the list that is returned.
SrNoSequenceWitness ==
    /\ pc = "main_write"
    /\ Len(ret_cases) >= 2
    /\ ret_cases[1].circuit_code # ret_cases[2].circuit_code

\* C2: with a next control that is always enabled and never changes the page
\* shown, the listing page is extracted at most twice.
StuckNextExtractsAtMostTwice ==
    portal.kind = "stuck" => extracts <= 2

\* The rows of pages 1..n of the paged portal, in page order then row order.
IsPagesInOrder(cases, n) ==
    /\ Len(cases) = n * portal.rows
    /\ \A k \in 1..Len(cases) :
          /\ cases[k].page = ((k - 1) \div portal.rows) + 1
          /\ cases[k].row = ((k - 1) % portal.rows) + 1

\* C3: on a result set of k <= MAX_PAGES pages, each but the last with a next
\* control leading to the following page, a call in which no browser call
\* fails returns the rows of all k pages in order and stops after page k.
PagedReturnsEveryPage ==
    (/\ pc = "hp_return"
     /\ portal.kind = "paged"
     /\ portal.pages <= MAX_PAGES
     /\ stop \notin {"notable", "error", "nohref"})
    => (/\ stop = "nonext"
        /\ extracts = portal.pages
        /\ IsPagesInOrder(hp_all_cases, portal.pages))

\* C4: at most MAX_PAGES pages are extracted for one sub-court, and on the
\* MAX_PAGES-th page the next control is neither looked for nor activated.
PageBound ==
    /\ extracts <= MAX_PAGES
    /\ current_page <= MAX_PAGES
    /\ navs <= MAX_PAGES - 1
    /\ (pc = "hp_nav" => current_page < MAX_PAGES)

\* The MAX_PAGES-th page was extracted and the call returned for that reason.
PageBoundWitness ==
    /\ pc = "hp_return"
    /\ extracts = MAX_PAGES
    /\ stop = "maxpages"

OneTabAtATime ==
    /\ tabs \in {0, 1}
    /\ (pc \in {"hp_while", "hp_wait", "hp_extract", "hp_row", "hp_open",
                "hp_seek", "hp_nav", "hp_return"}
            => tabs = 0 /\ focus = "primary")

\* A record's tab was opened and closed and the next record is about to start.
OneTabAtATimeWitness ==
    /\ pc = "hp_row"
    /\ i = 2
    /\ detail_links[1]
    /\ i <= Len(cases_page)
    /\ detail_links[2]

\* C7: whenever control is outside a record's detail step, however it left
\* it, no secondary tab is open and the first window has the focus.
TabReleasedOnEveryExit ==
    pc \notin {"hp_switch", "hp_detail", "hp_close", "hp_restore"}
        => tabs = 0 /\ focus = "primary"

\* The placeholder record the orchestrator is to add for a sub-court.
IsPlaceholderFor(c, label) ==
    c.circuit_code = label /\ c.details = "needs_js"

\* C8: when scrape_major_court is done, every sub-court that could not be
\* selected has exactly one placeholder record in the case list.
SkippedSubcourtHasPlaceholder ==
    pc = "smc_return" =>
        \A k \in 1..Len(skipped) :
            Cardinality({j \in 1..Len(all_cases) :
                            IsPlaceholderFor(all_cases[j], skipped[k])}) = 1

WrittenFor(j) == {w \in 1..Len(writes) : writes[w].major = j}

\* C9: a jurisdiction whose navigation failed returns the failure
\* description and no case, enumerates no sub-court and runs no pagination;
\* main writes its file and goes on with the next jurisdiction.
NavFailureSkipsJurisdiction ==
    /\ (mi \in navFailed =>
            /\ pc = "main_write"
            /\ ret_meta = FailedMeta(majors[mi].name)
            /\ ret_cases = <<>>
            /\ subcourt_texts = <<>>
            /\ pagRuns = 0)
    /\ \A j \in navFailed :
            /\ j <= mi
            /\ (j < mi =>
                  /\ WrittenFor(j) # {}
                  /\ \A w \in WrittenFor(j) :
                        /\ writes[w].out.description = "Failed to open major court"
                        /\ writes[w].out.ncases = 0
                        /\ writes[w].file_name = FileName(majors[j].name))

\* The first jurisdiction failed to open, its file is written, and the
\* second one is being scraped.
NavFailureWitness ==
    /\ 1 \in navFailed
    /\ mi = 2
    /\ pc = "smc_search"
    /\ WrittenFor(1) # {}

\* C10: when main has ended, every jurisdiction that passed the filter has
\* had its file written.
EveryJurisdictionWritten ==
    pc \in {"done", "crashed"} =>
        \A j \in 1..Len(majors) : WrittenFor(j) # {}

\* The records of the page being resolved that are already finalized: the
\* last i - 1 entries of the list the call builds.
PageDone(k) == hp_all_cases[Len(hp_all_cases) - (i - 1) + k]

\* C11: a failure while loading or resolving a record's detail page does not
\* abort the page: the records before the one in hand are finalized in row
\* order with consecutive sr_no, and every finalized record carries a
\* details field.
DetailFailureKeepsRecord ==
    pc \in {"hp_row", "hp_seek"} /\ i >= 1 =>
        /\ Len(hp_all_cases) >= i - 1
        /\ \A k \in 1..(i - 1) :
              /\ PageDone(k).row = k
              /\ PageDone(k).page = cases_page[k].page
              /\ PageDone(k).sr_no = Len(all_cases) + Len(hp_all_cases) - (i - 1) + k
              /\ PageDone(k).details # "absent"

\* C12: the list a call of handle_pagination_and_scrape builds holds no row
\* of the same result page twice, and when the call returns it holds one
\* record for every row of every result page it extracted.
NoRecordLossOrDuplication ==
    /\ \A j, k \in 1..Len(hp_all_cases) :
          (/\ hp_all_cases[j].page = hp_all_cases[k].page
           /\ hp_all_cases[j].row = hp_all_cases[k].row) => j = k
    /\ (pc = "hp_return" /\ portal.kind # "free" =>
          Len(hp_all_cases) = extracts * portal.rows)

\* The rule of selection: the allow-list is absent, or one of its entries is
\* a case-insensitive substring of the name, or the name of one of them.
SelectedByRule(name) ==
    \/ ~selected.present
    \/ \E k \in 1..Len(selected.list) :
          \/ IsSubstr(Lower(selected.list[k]), Lower(name))
          \/ IsSubstr(Lower(name), Lower(selected.list[k]))

\* C13: main keeps a discovered jurisdiction for processing if and only if
\* the rule of selection holds of its name, whatever the allow-list is.
FilterKeepsExactlySelected ==
    [][pc = "main_filter" =>
         \A k \in 1..Len(majors) :
            (\E j \in 1..Len(majors') : majors'[j] = majors[k])
                <=> SelectedByRule(majors[k].name)]_vars

\* The body rows that have cells, in document order.
HasCells(tr) == tr.tds # <<>>
DataRows(page) == SelectSeq(BodyRows(page), HasCells)

\* The key the column rule gives cell n (counted from 0) under h labels.
RuleKey(labels, n) ==
    IF n < Len(labels) THEN labels[n + 1] ELSE <<"c", "o", "l", "_">> \o Dec(n)

\* Cell n of the row is the only one with its key, and the key is not the
\* name of a fixed field.
OwnKey(labels, tds, n) ==
    /\ RuleKey(labels, n) \notin {CourtKey, CircuitKey}
    /\ \A m \in 0..(Len(tds) - 1) : RuleKey(labels, m) = RuleKey(labels, n) => m = n

\* C14: with h header labels, cell i of a body row is keyed by label i when
\* i < h and by col_<i> when i >= h: the keys of a record are those keys
\* and the fixed fields, and a cell that has its key to itself is found
\* under it.
ColumnFallback ==
    pc = "ex_returned" /\ html.table =>
        LET labels == HeaderRow(html).ths
            data == DataRows(html)
        IN  /\ Len(result.cases) = Len(data)
            /\ \A k \in 1..Len(data) :
                  LET tds == data[k].tds
                  IN  /\ DOMAIN result.cases[k] =
                            {CourtKey, CircuitKey}
                            \cup {RuleKey(labels, n) : n \in 0..(Len(tds) - 1)}
                      /\ \A n \in 0..(Len(tds) - 1) :
                            OwnKey(labels, tds, n) =>
                                result.cases[k][RuleKey(labels, n)] = tds[n + 1].text

\* A header of three labels and a row of four cells: the record has the
\* keys label0, label1, label2, col_3.
ColumnFallbackWitness ==
    /\ pc = "ex_returned"
    /\ html.table
    /\ HeaderRow(html).ths = <<LabelA, LabelB, LabelC>>
    /\ Len(result.cases) >= 1
    /\ DOMAIN result.cases[1] =
          {LabelA, LabelB, LabelC, <<"c", "o", "l", "_", "3">>, CourtKey, CircuitKey}

\* The first position of a card in the list of collected cards.
FirstAt(cards, e) ==
    CHOOSE k \in 1..Len(cards) :
        cards[k] = e /\ \A j \in 1..(k - 1) : cards[j] # e

NothingRecognised(page) ==
    /\ page.summary = NoneVal /\ page.tagline = NoneVal
    /\ page.hearing = {} /\ page.parties = <<>> /\ page.profile = {}
    /\ \A k \in 1..Len(page.anchors) :
          ~(/\ IsPdf(page.anchors[k].href)
            /\ (IsPetitionText(page.anchors[k].txt)
                  \/ IsJudgementText(page.anchors[k].txt)))

TextFieldsAreNA(r) ==
    /\ r.summary = NA /\ r.tagline = NA
    /\ \A f \in HearingFields : r.details.last_hearing[f] = NA
    /\ r.details.documents.petition_memo = NA
    /\ r.details.documents.judgement_order = NA

\* C16, as stated: on a page where nothing is recognised every field of the
\* record returned is "NA", the profile, parties and advocates fields too.
NothingRecognisedGivesAllNA ==
    pc = "dt_returned" /\ NothingRecognised(html) =>
        /\ TextFieldsAreNA(result)
        /\ result.details.profile = NA
        /\ result.details.parties = NA
        /\ result.details.advocates.applicant = NA
        /\ result.details.advocates.respondent = NA

\* C16, amended: on a page where nothing is recognised the function returns
\* with summary, tagline, every last_hearing field and every documents field
\* "NA", an empty profile, no parties and empty advocates lists.
NothingRecognisedGivesDefaults ==
    pc = "dt_returned" /\ NothingRecognised(html) =>
        /\ TextFieldsAreNA(result)
        /\ result.details.profile = <<>>
        /\ result.details.parties = <<>>
        /\ result.details.advocates.applicant = <<>>
        /\ result.details.advocates.respondent = <<>>

\* The function returned for a page whose only anchors are not recognised
\* document links.
NothingRecognisedWitness ==
    /\ pc = "dt_returned"
    /\ NothingRecognised(html)
    /\ Len(html.anchors) = 2

\* The positions of the PDF anchors whose text is of the petition/memo
\* category, and of the judgement/order category.
PetitionAnchors(page) ==
    {k \in 1..Len(page.anchors) :
        IsPdf(page.anchors[k].href) /\ IsPetitionText(page.anchors[k].txt)}

JudgementAnchors(page) ==
    {k \in 1..Len(page.anchors) :
        /\ IsPdf(page.anchors[k].href)
        /\ ~IsPetitionText(page.anchors[k].txt)
        /\ IsJudgementText(page.anchors[k].txt)}

FirstOf(S) == CHOOSE k \in S : \A j \in S : k <= j

\* C17: the documents field of a category holds the link of the first PDF
\* anchor of that category in document order.
DocumentFirstMatchWins ==
    pc = "dt_returned" =>
        /\ (PetitionAnchors(html) # {} =>
                result.details.documents.petition_memo =
                    UrlJoin(html.anchors[FirstOf(PetitionAnchors(html))].href))
        /\ (JudgementAnchors(html) # {} =>
                result.details.documents.judgement_order =
                    UrlJoin(html.anchors[FirstOf(JudgementAnchors(html))].href))

\* What extract_cases_from_html returned is two lists of the length of the
\* body rows that have cells, with entry k of each taken from the k-th such
\* row: the href of the anchor of its last cell, or None when it has none.
ReturnedInParallel ==
    LET data == DataRows(html)
    IN  /\ Len(result.cases) = Len(data)
        /\ Len(result.detail_links) = Len(data)
        /\ \A k \in 1..Len(data) :
              LET tds == data[k].tds
              IN  /\ result.detail_links[k] = tds[Len(tds)].href
                  /\ \A n \in 0..(Len(tds) - 1) :
                        OwnKey(HeaderRow(html).ths, tds, n) =>
                            \E key \in DOMAIN result.cases[k] :
                                result.cases[k][key] = tds[n + 1].text

\* C18: for every table, extract_cases_from_html returns, and what it
\* returns is two parallel lists of equal length; a row without cells adds
\* to neither, a row whose last cell has no anchor adds a None link.
ParallelSequences ==
    /\ pc # "ex_raised"
    /\ (pc = "ex_returned" /\ html.table => ReturnedInParallel)

\* C19: the pagination controller is run for the sub-court options in their
\* order, once for each option that could be selected, and when a run is
\* about to start the option selected in the browser is the option the run
\* is for; with no sub-court to select it is run once on the jurisdiction
\* page.
PaginatesEachOptionOnce ==
    /\ (pc = "smc_subsearch" =>
            selection = SubcourtVals(options, Len(options))[si])
    /\ (InHP /\ si > 0 =>
            sub_text = subcourt_texts[si] /\ pagRuns = si - Len(skipped))
    /\ (InHP /\ si = 0 => sub_text = NoSub /\ pagRuns = 1)
    /\ (pc = "smc_return" =>
            pagRuns = (IF subcourt_texts = <<>> THEN 1
                       ELSE Len(subcourt_texts) - Len(skipped)))

\* C20: when the wait for a table times out, or the page extracted has no
\* record, the next step of the controller is its return: no tab is open or
\* opened, the next control is not looked for, and the list and the counter
\* returned are those the earlier pages left, the counter being the one
\* given plus the number of records.
StraightToDone ==
    [][(\/ pc = "hp_wait" /\ stop' = "notable"
        \/ pc = "hp_extract" /\ extracts' = extracts + 1 /\ Len(cases_page') = 0)
       => /\ pc' = "hp_return"
          /\ tabs = 0 /\ tabs' = 0 /\ focus' = "primary"
          /\ navs' = navs
          /\ hp_all_cases' = hp_all_cases
          /\ hp_sr_no' = hp_sr_no
          /\ hp_sr_no' = sr_in + Len(hp_all_cases')]_vars

\* A second page without records ended a call that had finalized the
\* records of the first page.
StraightToDoneWitness ==
    /\ pc = "hp_return"
    /\ stop = "norecords"
    /\ current_page = 2
    /\ Len(hp_all_cases) >= 1

\* The circuit_code of a record extracted for jurisdiction j under sub.
StampFor(j, sub) == IF sub # NoSub THEN sub ELSE majors[j].name

\* C21: every record of a jurisdiction's case list has the jurisdiction's
\* name as court, and as circuit_code the label of the sub-court it was
\* extracted under, or the jurisdiction's name when there was none, although
\* the table has columns named court and circuit_code.
StampsCourtAndCircuit ==
    /\ (InHP =>
          \A k \in 1..Len(hp_all_cases) :
              /\ hp_all_cases[k].court = majors[mi].name
              /\ hp_all_cases[k].circuit_code = StampFor(mi, sub_text))
    /\ (InHP \/ pc \in {"smc_select", "smc_subsearch", "smc_return"} =>
          \A k \in 1..Len(all_cases) :
              /\ all_cases[k].court = majors[mi].name
              /\ IF subcourt_texts = <<>>
                 THEN all_cases[k].circuit_code = majors[mi].name
                 ELSE \E n \in 1..Len(subcourt_texts) :
                         /\ n <= si
                         /\ all_cases[k].circuit_code = subcourt_texts[n])
    /\ (pc = "main_write" =>
          \A k \in 1..Len(ret_cases) : ret_cases[k].court = majors[mi].name)

\* A jurisdiction returned a record of each of two sub-courts, extracted
\* from the table with the columns named court and circuit_code.
StampsWitness ==
    /\ pc = "main_write"
    /\ Len(ret_cases) = 2
    /\ ret_cases[1].court = majors[mi].name
    /\ ret_cases[1].circuit_code = OptA
    /\ ret_cases[2].circuit_code = OptB
\* main has ended after writing the result of every jurisdiction that passed
\* the filter (lines 593-612).
RunProcessedAll ==
    /\ pc = "done"
    /\ Len(writes) = Len(majors)

\* C22: after a run that processed the jurisdictions returned by scope
\* discovery, the output directory holds one file per jurisdiction, and the
\* file of each jurisdiction still holds the result written for it: no
\* jurisdiction's file is overwritten by the result of another one.
OneFilePerJurisdiction ==
    RunProcessedAll =>
        /\ Cardinality(DOMAIN files) = Len(majors)
        /\ \A w \in 1..Len(writes) : files[writes[w].file_name] = writes[w].out

\* C23: on every path by which main ends (the base URL fails to open, no
\* jurisdiction matches the allow-list, normal completion, an exception
\* raised while a jurisdiction is scraped), driver.quit() has been called.
SessionAlwaysReleased ==
    pc \in {"done", "crashed"} => quit

\* The part of C23 the code does ensure: main never returns without having
\* called driver.quit().
ReturnReleasesSession ==
    pc = "done" => quit
====
